---- MODULE Spec2Model ----
(***************************************************************************)
(* compare-pdf.py: two PDF files are rasterized, paired page by page, and  *)
(* every non-identical page is written as diff_page_N.png.  The model      *)
(* follows one CLI process from its start to its exit, and a second        *)
(* invocation on the same inputs and the same output directory.            *)
(*                                                                         *)
(* A raster image is a record [size, mode, px]: px is a row of pixels,     *)
(* size its width (the height is fixed), mode "RGB" or "RGBA".  Pixel 0    *)
(* and 1 are two colours further apart than the threshold 0.1, pixel 2 is  *)
(* the highlight colour pixelmatch paints.                                 *)
(***************************************************************************)
EXTENDS Integers, Sequences, FiniteSets, TLC

VARIABLES
    pdfA, pdfB,        \* what the two files render to (fixed: deterministic rasterization)
    outDir,            \* output_dir: "noparent", "absent", "file" (not a directory), "dir"
    files,             \* diff_page_N.png in output_dir -> content, NoImage if absent
    pc,                \* position of the process
    images1, images2,  \* the locals of compare_pdf_pages
    diff_detected, i,
    ret,               \* the value compare_pdf_pages returned: "none", "true", "false"
    exitCode,          \* exit status of the process, -1 while it runs
    log,               \* stdout of the process
    calls,             \* library calls of the process, in order, the failed one last
    failedCall,        \* the library call that raised, "none" if none did
    second,            \* whether this is the second invocation
    dir0, files0,      \* the filesystem when this invocation started
    ret1, dir1, files1 \* result and filesystem of the first invocation

vars == <<pdfA, pdfB, outDir, files, pc, images1, images2, diff_detected, i,
          ret, exitCode, log, calls, failedCall, second, dir0, files0,
          ret1, dir1, files1>>

\* Largest number of pages of a document.
MaxPages == 2

\* The page rasters a document is made of.
PageRows == { <<1>>, <<1, 1>>, <<0, 1>> }

Image(mode, px) == [size |-> Len(px), mode |-> mode, px |-> px]

PageImages == { Image("RGB", r) : r \in PageRows }

PageSeqs == UNION { [1..n -> PageImages] : n \in 0..MaxPages }

\* None: the fill value of zip_longest, and an absent file.
NoImage == [size |-> 0, mode |-> "none", px |-> <<>>]

FileNums == 0..(MaxPages + 1)

NoFiles == [n \in FileNums |-> NoImage]

\* A diff image an earlier run left behind.
StaleDiff == Image("RGBA", <<2>>)

Max(a, b) == IF a >= b THEN a ELSE b

Min(a, b) == IF a <= b THEN a ELSE b

----------------------------------------------------------------------------
(* The libraries *)

\* Image.convert("RGBA"): same pixels, an opaque alpha channel added.
Convert(img) == [img EXCEPT !.mode = "RGBA"]

\* Image.resize(size, LANCZOS): the row resampled to the new width.
Resize(img, size) ==
    [img EXCEPT !.size = size,
                !.px = [j \in 1..size |-> img.px[((j - 1) * img.size) \div size + 1]]]

\* The positions pixelmatch finds different.
DiffPositions(a, b) == { j \in 1..Min(a.size, b.size) : a.px[j] # b.px[j] }

\* pixelmatch(img1, img2, diff_img, threshold=0.1): the mismatch count.
Pixelmatch(a, b) == Cardinality(DiffPositions(a, b))

\* What pixelmatch draws into diff_img: the highlight colour on a mismatch.
DiffImage(a, b) ==
    [size |-> a.size, mode |-> "RGBA",
     px |-> [j \in 1..a.size |-> IF j \in DiffPositions(a, b) THEN 2 ELSE 0]]

\* Image.alpha_composite(img1, diff_img).
AlphaComposite(a, d) ==
    [a EXCEPT !.px = [j \in 1..a.size |-> IF d.px[j] = 2 THEN 2 ELSE a.px[j]]]

\* Image.save(path): the file is created or overwritten.
SaveFileAppend(fs, n, img) ==
    IF fs[n] = NoImage THEN [fs EXCEPT ![n] = img]
    ELSE [fs EXCEPT ![n] = Image("RGBA", fs[n].px \o img.px)]

SaveFile(fs, n, img) == [fs EXCEPT ![n] = img]

\* Path.mkdir(exist_ok=True, parents=True): TRUE when it raises, which it
\* does when the path is taken by a file that is no directory.
MkdirRaisesNoExistOk(dir) == dir \in {"file", "dir"}

MkdirRaises(dir) == dir = "file"

----------------------------------------------------------------------------
(* compare_pdf_pages *)

Call(op, page, a, b) == [op |-> op, page |-> page, a |-> a, b |-> b]

\* zip_longest(images1, images2)[n - 1]
PageAt(imgs, n) == IF n <= Len(imgs) THEN imgs[n] ELSE NoImage

\* len(images1) != len(images2)
PageCountMismatchNever(a, b) == FALSE

PageCountMismatch(a, b) == Len(a) # Len(b)

\* existing = img1 or img2
Existing(img1, img2) == IF img1 # NoImage THEN img1 ELSE img2

\* What the missing-page branch saves.
MissingPageFileConverted(img1, img2) == Convert(Existing(img1, img2))

MissingPageFile(img1, img2) == Existing(img1, img2)

\* f"diff_page_{i+1}.png"
DiffFileNumZeroBased(k) == k

DiffFileNum(k) == k + 1

\* if img1.size != img2.size: img2 = img2.resize(img1.size, Image.LANCZOS)
FittedFirst(c1, c2) ==
    IF c1.size # c2.size THEN <<Resize(c1, c2.size), c2>> ELSE <<c1, c2>>

Fitted(c1, c2) ==
    IF c1.size # c2.size THEN <<c1, Resize(c2, c1.size)>> ELSE <<c1, c2>>

\* if mismatch > 0
IsDifferentOrEqual(mismatch) == mismatch >= 0

IsDifferent(mismatch) == mismatch > 0

\* sys.exit(1) / sys.exit(0)
ExitStatusSwapped(found) == IF found THEN 0 ELSE 1

ExitStatus(found) == IF found THEN 1 ELSE 0

\* No call of compare_pdf_pages or of the main block is inside a try: an
\* exception raised by a library call leaves the function and the program.
NextPcOnFailureSkipPage(op) == IF op = "save" THEN "loop" ELSE "raised"

NextPcOnFailure(op) == "raised"

history == <<second, dir0, files0, ret1, dir1, files1>>

Init ==
    /\ pdfA \in PageSeqs
    /\ pdfB \in PageSeqs
    /\ outDir \in {"noparent", "absent", "file", "dir"}
    /\ files \in IF outDir = "dir"
                 THEN {NoFiles} \cup { [NoFiles EXCEPT ![n] = StaleDiff] : n \in 1..MaxPages }
                 ELSE {NoFiles}
    /\ pc = "start"
    /\ images1 = <<>>
    /\ images2 = <<>>
    /\ diff_detected = FALSE
    /\ i = 0
    /\ ret = "none"
    /\ exitCode = -1
    /\ log = <<>>
    /\ calls = <<>>
    /\ failedCall = "none"
    /\ second = FALSE
    /\ dir0 = outDir
    /\ files0 = files
    /\ ret1 = "none"
    /\ dir1 = outDir
    /\ files1 = files

\* convert_from_path(file, dpi=100, use_pdftocairo=True), with the directory
\* state it leaves: the pages of the document, or an exception.
RasterizeStep(op, doc, dirAfter) ==
    /\ calls' = Append(calls, Call(op, 0, NoImage, NoImage))
    /\ outDir' = dirAfter
    /\ \E ok \in BOOLEAN :
          IF ok
          THEN /\ IF op = "rasterizeA"
                  THEN images1' = doc /\ images2' = images2 /\ pc' = "rasterB"
                  ELSE images2' = doc /\ images1' = images1 /\ pc' = "mkdir"
               /\ failedCall' = failedCall
          ELSE /\ pc' = NextPcOnFailure(op)
               /\ failedCall' = op
               /\ UNCHANGED <<images1, images2>>
    /\ UNCHANGED <<pdfA, pdfB, files, diff_detected, i, ret, exitCode, log>>
    /\ UNCHANGED history

RasterizeA ==
    /\ pc = "start"
    /\ RasterizeStep("rasterizeA", pdfA, outDir)

RasterizeBMkdirFirst ==
    /\ pc = "rasterB"
    /\ RasterizeStep("rasterizeB", pdfB, "dir")

RasterizeB ==
    /\ pc = "rasterB"
    /\ RasterizeStep("rasterizeB", pdfB, outDir)

\* Path(output_dir).mkdir(exist_ok=True, parents=True); diff_detected = False
Mkdir ==
    /\ pc = "mkdir"
    /\ calls' = Append(calls, Call("mkdir", 0, NoImage, NoImage))
    /\ IF MkdirRaises(outDir)
       THEN /\ pc' = NextPcOnFailure("mkdir")
            /\ failedCall' = "mkdir"
            /\ UNCHANGED <<outDir, diff_detected>>
       ELSE /\ outDir' = "dir"
            /\ diff_detected' = FALSE
            /\ pc' = "count"
            /\ failedCall' = failedCall
    /\ UNCHANGED <<pdfA, pdfB, files, images1, images2, i, ret, exitCode, log>>
    /\ UNCHANGED history

\* if len(images1) != len(images2): warning, diff_detected = True
CheckPageCount ==
    /\ pc = "count"
    /\ IF PageCountMismatch(images1, images2)
       THEN /\ log' = Append(log, [msg |-> "page count mismatch", page |-> 0])
            /\ diff_detected' = TRUE
       ELSE UNCHANGED <<log, diff_detected>>
    /\ i' = 0
    /\ pc' = "loop"
    /\ UNCHANGED <<pdfA, pdfB, outDir, files, images1, images2, ret, exitCode,
                   calls, failedCall>>
    /\ UNCHANGED history

\* One iteration of the loop ends at the k-th of its library calls, which raises.
PageFails(steps, k) ==
    /\ calls' = calls \o SubSeq(steps, 1, k)
    /\ failedCall' = steps[k].op
    /\ pc' = NextPcOnFailure(steps[k].op)
    /\ i' = IF NextPcOnFailure(steps[k].op) = "loop" THEN i + 1 ELSE i
    /\ UNCHANGED <<files, log, diff_detected>>

\* The first call of the iteration that cannot succeed, 0 if every call can:
\* a save into a directory that does not exist, a pixelmatch of two sizes.
Doomed(steps) ==
    LET bad == { k \in 1..Len(steps) :
                   \/ steps[k].op = "save" /\ outDir # "dir"
                   \/ steps[k].op = "pixelmatch" /\ steps[k].a.size # steps[k].b.size }
    IN  IF bad = {} THEN 0 ELSE CHOOSE k \in bad : \A m \in bad : k <= m

\* if img1 is None or img2 is None: save the one there is; continue
MissingPage(img1, img2) ==
    LET n     == DiffFileNum(i)
        steps == << Call("save", n, MissingPageFile(img1, img2), NoImage) >>
    IN  \/ /\ Doomed(steps) = 0
           /\ calls' = calls \o steps
           /\ files' = SaveFile(files, n, steps[1].a)
           /\ log' = Append(log, [msg |-> "missing", page |-> i + 1])
           /\ i' = i + 1
           /\ UNCHANGED <<pc, failedCall, diff_detected>>
        \/ PageFails(steps, 1)

\* convert, resize, pixelmatch, and on a mismatch alpha_composite and save.
\* The resize call is recorded with the image it was given and its result.
DiffPage(img1, img2) ==
    LET n        == DiffFileNum(i)
        c1       == Convert(img1)
        c2       == Convert(img2)
        resized  == c1.size # c2.size
        fit      == Fitted(c1, c2)
        mismatch == Pixelmatch(fit[1], fit[2])
        diff_img == DiffImage(fit[1], fit[2])
        high     == AlphaComposite(fit[1], diff_img)
        steps    == << Call("convert", i + 1, img1, NoImage),
                       Call("convert", i + 1, img2, NoImage) >>
                    \o (IF resized
                        THEN << Call("resize", i + 1,
                                     IF fit[1] = c1 THEN c2 ELSE c1,
                                     IF fit[1] = c1 THEN fit[2] ELSE fit[1]) >>
                        ELSE << >>)
                    \o << Call("new", i + 1, NoImage, NoImage),
                          Call("pixelmatch", i + 1, fit[1], fit[2]) >>
                    \o (IF IsDifferent(mismatch)
                        THEN << Call("alpha_composite", i + 1, fit[1], diff_img),
                                Call("save", n, high, NoImage) >>
                        ELSE << >>)
        doomed   == Doomed(steps)
    IN  \/ /\ doomed = 0
           /\ calls' = calls \o steps
           /\ log' = log
                     \o (IF resized THEN << [msg |-> "size mismatch", page |-> i + 1] >>
                         ELSE << >>)
                     \o (IF IsDifferent(mismatch)
                         THEN << [msg |-> "pixels differ", page |-> i + 1] >>
                         ELSE << >>)
           /\ IF IsDifferent(mismatch)
              THEN /\ diff_detected' = TRUE
                   /\ files' = SaveFile(files, n, high)
              ELSE UNCHANGED <<diff_detected, files>>
           /\ i' = i + 1
           /\ UNCHANGED <<pc, failedCall>>
        \/ \E k \in 1..(IF doomed = 0 THEN Len(steps) ELSE doomed) : PageFails(steps, k)

\* for i, (img1, img2) in enumerate(zip_longest(images1, images2))
ComparePage ==
    /\ pc = "loop"
    /\ i < Max(Len(images1), Len(images2))
    /\ LET img1 == PageAt(images1, i + 1)
           img2 == PageAt(images2, i + 1)
       IN  IF img1 = NoImage \/ img2 = NoImage
           THEN MissingPage(img1, img2)
           ELSE DiffPage(img1, img2)
    /\ UNCHANGED <<pdfA, pdfB, outDir, images1, images2, ret, exitCode>>
    /\ UNCHANGED history

\* return diff_detected
Return ==
    /\ pc = "loop"
    /\ i >= Max(Len(images1), Len(images2))
    /\ ret' = IF diff_detected THEN "true" ELSE "false"
    /\ pc' = "returned"
    /\ UNCHANGED <<pdfA, pdfB, outDir, files, images1, images2, diff_detected, i,
                   exitCode, log, calls, failedCall>>
    /\ UNCHANGED history

\* if compare_pdf_pages(...): print, sys.exit(1)  else: print, sys.exit(0)
MainExit ==
    /\ pc = "returned"
    /\ log' = Append(log, [msg |-> IF ret = "true" THEN "Differences found"
                                   ELSE "No significant differences",
                           page |-> 0])
    /\ exitCode' = ExitStatus(ret = "true")
    /\ pc' = "exited"
    /\ UNCHANGED <<pdfA, pdfB, outDir, files, images1, images2, diff_detected, i,
                   ret, calls, failedCall>>
    /\ UNCHANGED history

\* An exception nothing catches: the interpreter prints the traceback and
\* exits with status 1.
UncaughtExit ==
    /\ pc = "raised"
    /\ exitCode' = 1
    /\ pc' = "exited"
    /\ UNCHANGED <<pdfA, pdfB, outDir, files, images1, images2, diff_detected, i,
                   ret, log, calls, failedCall>>
    /\ UNCHANGED history

\* The program is run again on the same files and the same output directory,
\* after a run that completed.
RunAgain ==
    /\ pc = "exited"
    /\ ret # "none"
    /\ ~second
    /\ second' = TRUE
    /\ ret1' = ret
    /\ dir1' = outDir
    /\ files1' = files
    /\ dir0' = outDir
    /\ files0' = files
    /\ pc' = "start"
    /\ images1' = <<>>
    /\ images2' = <<>>
    /\ diff_detected' = FALSE
    /\ i' = 0
    /\ ret' = "none"
    /\ exitCode' = -1
    /\ log' = <<>>
    /\ calls' = <<>>
    /\ failedCall' = "none"
    /\ UNCHANGED <<pdfA, pdfB, outDir, files>>

Next ==
    \/ RasterizeA
    \/ RasterizeB
    \/ Mkdir
    \/ CheckPageCount
    \/ ComparePage
    \/ Return
    \/ MainExit
    \/ UncaughtExit
    \/ RunAgain

Spec == Init /\ [][Next]_vars

----------------------------------------------------------------------------
(* The vocabulary of the properties *)

\* Indices (1-based) both documents have, and those only the longer one has.
Shared == 1..Min(Len(pdfA), Len(pdfB))

Extra == (Min(Len(pdfA), Len(pdfB)) + 1)..Max(Len(pdfA), Len(pdfB))

Longer == IF Len(pdfA) >= Len(pdfB) THEN pdfA ELSE pdfB

\* The second page of a pair as it must reach the pixel diff.
SecondAsCompared(n) ==
    IF pdfA[n].size = pdfB[n].size THEN Convert(pdfB[n])
    ELSE Resize(Convert(pdfB[n]), pdfA[n].size)

\* The mismatch count of page n after conversion and resizing.
MismatchCount(n) == Pixelmatch(Convert(pdfA[n]), SecondAsCompared(n))

NonIdentical(n) == n \in Extra \/ (n \in Shared /\ MismatchCount(n) > 0)

DocsDiffer == Len(pdfA) # Len(pdfB) \/ \E n \in Shared : MismatchCount(n) > 0

\* The call compare_pdf_pages has returned.
Completed == ret # "none"

CallsOf(op, n) == { k \in 1..Len(calls) : calls[k].op = op /\ calls[k].page = n }

\* How often this run wrote diff_page_n.png.
SavesTo(n) == Cardinality(CallsOf("save", n))

Messages(m) == { k \in 1..Len(log) : log[k].msg = m }

RasterCalls == {"rasterizeA", "rasterizeB"}

ImageCalls == {"convert", "resize", "new", "pixelmatch", "alpha_composite", "save"}

----------------------------------------------------------------------------
\* C1: a completed compare_pdf_pages returns true if and only if the page
\* counts differ or some shared index has a mismatch count > 0 after
\* conversion and resizing.
C1_ReturnsTrueIffDifferent ==
    Completed => (ret = "true" <=> DocsDiffer)

\* Documents of different length whose shared page matches: true by the count alone.
C1_Witness ==
    /\ pc = "exited"
    /\ ret = "true"
    /\ Len(pdfA) = 1
    /\ Len(pdfB) = 2
    /\ MismatchCount(1) = 0

\* C2: in a completed run diff_page_n.png is written exactly once for every
\* non-identical index n (a page missing in one document, or a mismatch
\* count > 0) and not at all for any other index, also when the page counts
\* differ.
C2_FilesWrittenAreTheNonIdenticalPages ==
    Completed =>
        \A n \in FileNums :
            /\ SavesTo(n) = IF NonIdentical(n) THEN 1 ELSE 0
            /\ NonIdentical(n) => files[n] # NoImage

\* Page counts differ, page 1 matches and is not written, page 2 is.
C2_Witness ==
    /\ pc = "exited"
    /\ Completed
    /\ Len(pdfA) = 2
    /\ Len(pdfB) = 1
    /\ MismatchCount(1) = 0
    /\ SavesTo(1) = 0
    /\ SavesTo(2) = 1

\* C3: when the page counts differ, the warning is logged once, before any
\* page message; and in a completed run every index only the longer document
\* has is written as the unmodified raster of that page, with no conversion
\* or pixel diff run for it, and the result is true.
C3_UnmatchedPagesSavedAsRasterized ==
    /\ (pc = "loop" \/ Completed) /\ Len(pdfA) # Len(pdfB) =>
           /\ Messages("page count mismatch") = {1}
    /\ Completed /\ Len(pdfA) # Len(pdfB) =>
           /\ ret = "true"
           /\ \A n \in Extra :
                 /\ files[n] = Longer[n]
                 /\ SavesTo(n) = 1
                 /\ \A op \in ImageCalls \ {"save"} : CallsOf(op, n) = {}

\* Three-versus-two-page shape at the model's size: B has the unmatched page 2.
C3_Witness ==
    /\ pc = "exited"
    /\ Completed
    /\ Len(pdfA) = 1
    /\ Len(pdfB) = 2
    /\ files[2] = pdfB[2]
    /\ files0[2] = NoImage

\* C4 as stated: exit code 1 if compare returned true, 0 if it returned
\* false; exit code 0 only when the counts are equal and every page has
\* mismatch 0, exit code 1 only when a difference was found.
C4_Original ==
    pc = "exited" =>
        /\ ret = "true" => exitCode = 1
        /\ ret = "false" => exitCode = 0
        /\ exitCode = 0 => ret = "false" /\ ~DocsDiffer
        /\ exitCode = 1 => ret = "true" /\ DocsDiffer

\* C4 amended: exit code 1 if compare returned true, 0 if it returned false;
\* exit code 0 only when the counts are equal and every page has mismatch 0;
\* exit code 1 only when a difference was found or a library call raised
\* (the interpreter ends an uncaught exception with status 1 as well).
C4_ExitCode ==
    pc = "exited" =>
        /\ exitCode \in {0, 1}
        /\ ret = "true" => exitCode = 1
        /\ ret = "false" => exitCode = 0
        /\ exitCode = 0 => ret = "false" /\ ~DocsDiffer
        /\ exitCode = 1 => (ret = "true" /\ DocsDiffer) \/ failedCall # "none"

\* Equal documents whose rasterization raised: exit code 1 with no difference.
C4_Witness ==
    /\ pc = "exited"
    /\ exitCode = 1
    /\ pdfA = pdfB
    /\ Len(pdfA) = 1
    /\ failedCall = "rasterizeB"

\* C5 as stated: for two identical PDFs compare returns false and afterwards
\* the output directory holds no diff_page_N.png, whatever it held before.
C5_Original ==
    Completed /\ pdfA = pdfB => ret = "false" /\ files = NoFiles

\* C5 amended: for two identical PDFs compare returns false and writes no
\* file: afterwards the output directory holds exactly the diff files it
\* held before the run, so none if it held none.
C5_IdenticalWritesNothing ==
    Completed /\ pdfA = pdfB =>
        /\ ret = "false"
        /\ files = files0
        /\ \A n \in FileNums : SavesTo(n) = 0

\* Identical two-page documents, run into a directory with an earlier diff file.
C5_Witness ==
    /\ pc = "exited"
    /\ Completed
    /\ pdfA = pdfB
    /\ Len(pdfA) = 2
    /\ files0 # NoFiles
    /\ files = files0

\* C6: a second completed run on the same inputs and output directory returns
\* what the first returned and leaves the same files with the same contents.
C6_Idempotent ==
    second /\ Completed => ret = ret1 /\ files = files1 /\ outDir = dir1

\* The second run rewrote a diff file next to one an earlier run left.
C6_Witness ==
    /\ second
    /\ pc = "exited"
    /\ ret = "true"
    /\ SavesTo(2) = 1
    /\ files[1] = StaleDiff

\* C7: the output directory exists whenever the loop runs, so at every save;
\* mkdir is called before the first save, raises only when the path is taken
\* by a file, so not when the directory exists already, and has been called
\* in every completed run, also in one that wrote nothing.
C7_DirectoryExistsBeforeWrites ==
    /\ pc = "loop" \/ Completed => outDir = "dir" /\ CallsOf("mkdir", 0) # {}
    /\ \A k \in 1..Len(calls) :
          calls[k].op = "save" => \E m \in 1..(k - 1) : calls[m].op = "mkdir"
    /\ failedCall = "mkdir" => dir0 = "file"

\* Nothing written, and the directory was made with its parent.
C7_Witness ==
    /\ pc = "exited"
    /\ Completed
    /\ dir0 = "noparent"
    /\ outDir = "dir"
    /\ files = NoFiles
    /\ Len(pdfA) = 2

\* C8: the pixel diff of a page pair is run on the converted first image,
\* never resized, and on the converted second image, resized to the first
\* image's dimensions when the two differ; resize is called on the second
\* image only, and only then; in a completed run the page is written and
\* counted as a difference exactly if that diff found a mismatch > 0, so a
\* pair that differs in dimensions alone writes no file and leaves the result
\* of otherwise equal documents false.
C8_ResizeSecondThenDiff ==
    /\ \A k \in 1..Len(calls) :
          LET c == calls[k] IN
          /\ c.op = "pixelmatch" =>
                /\ c.a = Convert(pdfA[c.page])
                /\ c.b = SecondAsCompared(c.page)
                /\ c.b.size = pdfA[c.page].size
                /\ Completed => (SavesTo(c.page) = 1 <=> Pixelmatch(c.a, c.b) > 0)
          /\ c.op = "resize" =>
                /\ pdfA[c.page].size # pdfB[c.page].size
                /\ c.a = Convert(pdfB[c.page])
                /\ c.b.size = pdfA[c.page].size
    /\ Completed =>
          \A n \in Shared :
              /\ Cardinality(CallsOf("pixelmatch", n)) = 1
              /\ Cardinality(CallsOf("resize", n))
                     = IF pdfA[n].size # pdfB[n].size THEN 1 ELSE 0
              /\ MismatchCount(n) = 0 => SavesTo(n) = 0 /\ files[n] = files0[n]
    /\ Completed /\ ~DocsDiffer => ret = "false"

\* One page each, of different dimensions, equal once the second is resized.
C8_Witness ==
    /\ pc = "exited"
    /\ Len(pdfA) = 1
    /\ Len(pdfB) = 1
    /\ pdfA[1].size # pdfB[1].size
    /\ CallsOf("resize", 1) # {}
    /\ ret = "false"
    /\ files = NoFiles

C9_Invariant ==
    /\ failedCall # "none" =>
          /\ pc \in {"raised", "exited"}
          /\ ret = "none"
          /\ Messages("Differences found") = {}
          /\ Messages("No significant differences") = {}
          /\ calls[Len(calls)].op = failedCall
    /\ pc = "raised" \/ (pc = "exited" /\ ret = "none") =>
          \/ failedCall \in RasterCalls \cup ImageCalls
          \/ failedCall = "mkdir" /\ outDir = "file"

C9_Step ==
    failedCall # "none" =>
        UNCHANGED <<failedCall, calls, i, files, outDir, ret, log, diff_detected>>

\* C9: a rasterization or image-library call that raises ends the run: the
\* call is not made again, no further call is made and no later page is
\* processed, compare_pdf_pages returns no value and neither outcome message
\* is printed; and a run ends this way only because such a call raised (or
\* mkdir found a file in its way), never because of a page-count, size or
\* pixel mismatch.
C9_FailureIsFatal == []C9_Invariant /\ [][C9_Step]_vars

\* A save raised on page 1 of 2 after the count mismatch was noted.
C9_Witness ==
    /\ pc = "exited"
    /\ failedCall = "save"
    /\ diff_detected
    /\ i = 0
    /\ Max(Len(images1), Len(images2)) = 2
    /\ exitCode = 1

\* C10: the first two calls of a run are the rasterization of A and then of
\* B, every other call comes after both have returned, and until then, and
\* when either of them raises, the filesystem is as the run found it: the
\* output directory is not created and no file is written.
C10_RasterizedBeforeAnyEffect ==
    /\ \A k \in 1..Len(calls) :
          /\ k = 1 <=> calls[k].op = "rasterizeA"
          /\ k = 2 <=> calls[k].op = "rasterizeB"
    /\ pc \in {"start", "rasterB", "mkdir"} \/ failedCall \in RasterCalls =>
          outDir = dir0 /\ files = files0
    /\ failedCall = "rasterizeA" => Len(calls) = 1 /\ images2 = <<>>
    /\ pc \in {"mkdir", "count", "loop", "returned"} =>
          images1 = pdfA /\ images2 = pdfB

\* Rasterizing B raised: the output directory is still absent.
C10_Witness ==
    /\ pc = "exited"
    /\ failedCall = "rasterizeB"
    /\ dir0 = "absent"
    /\ outDir = "absent"
    /\ Len(pdfA) = 2

====
